---- MODULE Spec2Model ----
(***************************************************************************)
(* Unity asset-bundle tools: the header normalizer (strip_cfs.py) and the  *)
(* extraction engines (extract_assets.py, extract_textures.py).            *)
(*                                                                         *)
(* Two state machines share this module:                                   *)
(*   SpecStrip  runs of strip_cfs.py main() over a small disk;             *)
(*   Spec       one run of extract_assets.py / extract_textures.py main(). *)
(* Files are byte sequences (naturals 0..255); file names are sequences of *)
(* one-character strings, so that concatenation and collisions of names    *)
(* are computed as the code computes them.                                 *)
(***************************************************************************)
EXTENDS Integers, Sequences, FiniteSets, TLC

VARIABLES
    \* ---- strip_cfs.py ----
    disk,      \* [SPaths -> file record]: the files the normalizer can see
    spc,       \* "idle" | "loop": position of strip_cfs.main
    sargs,     \* the arguments of the run in progress
    sfiles,    \* process_directory: sorted(files)
    sidx,      \* process_directory: index of the next file of the loop
    sstats,    \* process_directory: stats
    sexit,     \* exit status of the last finished run (-1: none yet)
    nruns,     \* number of runs of main started
    last,      \* the last call of strip_cfs_header (observation)
    prev,      \* the call before it (observation)
    \* ---- extract_assets.py / extract_textures.py ----
    args,          \* the command line: tool, ok, types, min_size
    srcdir,        \* the files under bundle_dir
    extract_types, \* extract_assets: the requested types
    bundles,       \* find_bundles(args.bundle_dir)
    bi,            \* index of the bundle of the loop (1-based)
    epc,           \* "start" | "loop" | "objs" | "done"
    seen,          \* path_ids the open bundle has yielded
    out,           \* the output tree: path -> content
    stats,         \* extract_assets: type -> [success, failed]
    tex,           \* extract_textures: [extracted, failed, skipped]
    totals,        \* extract_assets: the TOTAL line of the summary
    exitCode,      \* exit status (-1 while running)
    nobj,          \* number of objects yielded so far (observation)
    hist,          \* counts of what was yielded and opened (observation)
    log,           \* the exporter calls made, in order (observation)
    step           \* the last step of the engine (observation)

stripVars == <<disk, spc, sargs, sfiles, sidx, sstats, sexit, nruns, last, prev>>

engVars ==
    <<args, srcdir, extract_types, bundles, bi, epc, seen, out, stats, tex,
      totals, exitCode, nobj, hist, log, step>>

vars == <<stripVars, engVars>>

(***************************************************************************)
(* Bytes                                                                   *)
(***************************************************************************)

\* min of two naturals
Min(a, b) == IF a < b THEN a ELSE b

\* f.read(n) on the remaining bytes s: at most n bytes, fewer at end of file
Take(s, n) == SubSeq(s, 1, Min(n, Len(s)))

\* what is left of s after f.read(n)
Drop(s, n) == SubSeq(s, Min(n, Len(s)) + 1, Len(s))

\* bytes.startswith
StartsWith(s, p) == Len(s) >= Len(p) /\ SubSeq(s, 1, Len(p)) = p

\* b"UnityCFS"
CFS_MAGIC == <<85, 110, 105, 116, 121, 67, 70, 83>>

\* the size of the alternate header: 8 magic + 4 version + 20 digest
CFS_HEADER_SIZE == 32

\* b"UnityFS"
UNITYFS_MAGIC == <<85, 110, 105, 116, 121, 70, 83>>

RECURSIVE ByteSum(_)
ByteSum(s) == IF s = <<>> THEN 0 ELSE Head(s) + ByteSum(Tail(s))

\* hashlib.sha1(data).digest(): a 20-byte digest that is a function of the
\* data.  The library's compression function is not reproduced; the digest
\* stands in for it as a deterministic 20-byte function of the bytes.
Sha1Digest(data) ==
    [i \in 1..20 |-> (ByteSum(data) * i + 7 * Len(data) + i) % 256]

\* struct.unpack("<I", b)[0] of four bytes
UnpackLE32(b) == b[1] + 256 * b[2] + 65536 * b[3] + 16777216 * b[4]

(***************************************************************************)
(* strip_cfs_header                                                        *)
(***************************************************************************)

NoFile == [exists |-> FALSE, bytes |-> <<>>]
FileOf(b) == [exists |-> TRUE, bytes |-> b]

\* magic == CFS_MAGIC, magic being f.read(8)
IsCfsMagic5(content) == Take(content, 5) = Take(CFS_MAGIC, 5)
IsCfsMagic(content) == Take(content, 8) = CFS_MAGIC

\* the payload of a file with the header: f.read(8), f.read(4), f.read(20),
\* then data = f.read()
CfsPayloadNoDigest(content) == Drop(Drop(content, 8), 4)
CfsPayload(content) == Drop(Drop(Drop(content, 8), 4), 20)

\* the copy branch: f.seek(0); data = f.read()
CopyDataNoSeek(content) == Drop(content, 8)
CopyData(content) == content

\* with open(output_path, "wb") as out: out.write(data)
WriteFile(d, path, data) == [d EXCEPT ![path] = FileOf(data)]

\* strip_cfs_header treating a digest that differs as an error
StripCfsHeaderStrict(d, inp, outp) ==
    LET content == d[inp].bytes IN
    IF IsCfsMagic(content)
    THEN LET vbytes == Take(Drop(content, 8), 4)
             sha1_hash == Take(Drop(content, 12), 20)
             data == CfsPayload(content)
         IN IF Len(vbytes) < 4 \/ Sha1Digest(data) # sha1_hash
            THEN [raised |-> TRUE, ret |-> FALSE, disk |-> d, version |-> 0,
                  warnMagic |-> FALSE, warnHash |-> FALSE]
            ELSE [raised |-> FALSE, ret |-> TRUE,
                  disk |-> WriteFile(d, outp, data),
                  version |-> UnpackLE32(vbytes),
                  warnMagic |-> ~StartsWith(data, UNITYFS_MAGIC),
                  warnHash |-> FALSE]
    ELSE [raised |-> FALSE, ret |-> FALSE,
          disk |-> WriteFile(d, outp, CopyData(content)),
          version |-> 0, warnMagic |-> FALSE, warnHash |-> FALSE]

\* strip_cfs_header(input_path, output_path) on disk d: what the call does.
\* raised: struct.error of struct.unpack on fewer than 4 bytes.
StripCfsHeader(d, inp, outp) ==
    LET content == d[inp].bytes IN
    IF IsCfsMagic(content)
    THEN LET vbytes == Take(Drop(content, 8), 4) IN
         IF Len(vbytes) < 4
         THEN [raised |-> TRUE, ret |-> FALSE, disk |-> d, version |-> 0,
               warnMagic |-> FALSE, warnHash |-> FALSE]
         ELSE LET sha1_hash == Take(Drop(content, 12), 20)
                  data == CfsPayload(content)
              IN [raised |-> FALSE, ret |-> TRUE,
                  disk |-> WriteFile(d, outp, data),
                  version |-> UnpackLE32(vbytes),
                  warnMagic |-> ~StartsWith(data, UNITYFS_MAGIC),
                  warnHash |-> Sha1Digest(data) # sha1_hash]
    ELSE [raised |-> FALSE, ret |-> FALSE,
          disk |-> WriteFile(d, outp, CopyData(content)),
          version |-> 0, warnMagic |-> FALSE, warnHash |-> FALSE]

(***************************************************************************)
(* The disk of the normalizer                                              *)
(***************************************************************************)

\* the directories and the file names (relative paths) of the model
SDirs == {"in", "out"}
SNames ==
    { [stem |-> "a", suffix |-> ".bundle"],
      [stem |-> "b", suffix |-> ""],
      [stem |-> "c", suffix |-> ".txt"] }
SPaths == [dir : SDirs, name : SNames]

\* sorted(): paths of one directory compare by their names; the stems of
\* the model are single letters, so the order is the order of the stems
StemRank(stem) ==
    CASE stem = "a" -> 1 [] stem = "b" -> 2 [] stem = "c" -> 3
      [] stem = "d" -> 4 [] stem = "e" -> 5 [] stem = "f" -> 6
      [] stem = "g" -> 7 [] OTHER -> 8

RECURSIVE SortedByStem(_)
SortedByStem(S) ==
    IF S = {} THEN <<>>
    ELSE LET m == CHOOSE x \in S :
                    \A y \in S : StemRank(x.name.stem) <= StemRank(y.name.stem)
         IN <<m>> \o SortedByStem(S \ {m})

\* n bytes of filler (the version and digest fields, payload tails)
Filler(n, b) == [i \in 1..n |-> b]

\* a well-formed alternate-format file: magic, version 1, digest of p, p
Wrap(p) == CFS_MAGIC \o <<1, 0, 0, 0>> \o Sha1Digest(p) \o p

\* a file with the header whose digest is not the payload's
WrapBadDigest(p) == CFS_MAGIC \o <<1, 0, 0, 0>> \o Filler(20, 0) \o p

StdBundle == UNITYFS_MAGIC \o <<0, 53, 46, 120>>

\* file contents the normalizer is run on
StripInputs ==
    { <<>>,                                  \* an empty file
      Take(UNITYFS_MAGIC, 5),                \* shorter than the magic
      StdBundle,                             \* a standard bundle
      CFS_MAGIC,                             \* the magic and nothing else
      CFS_MAGIC \o <<1, 0>>,                 \* a truncated version field
      CFS_MAGIC \o <<1, 0, 0, 0>>,           \* no digest, no payload
      CFS_MAGIC \o <<1, 0, 0, 0>> \o Filler(10, 9),   \* a truncated digest
      Take(CFS_MAGIC, 7) \o <<88>> \o Filler(30, 9),  \* "UnityCFX": a near miss
      Wrap(<<>>),                            \* a header and an empty payload
      Wrap(StdBundle),                       \* the well-formed case
      Wrap(UNITYFS_MAGIC),
      WrapBadDigest(StdBundle),              \* digest mismatch
      Wrap(<<88, 89, 90>>),                  \* payload without the std magic
      WrapBadDigest(<<88, 89, 90>>),
      Wrap(Wrap(StdBundle)),                 \* a header in front of a header
      Wrap(CFS_MAGIC) }                      \* payload is the bare magic

\* contents of the second file of a directory
DirInputs == { StdBundle, CFS_MAGIC, Wrap(StdBundle) }

\* how many times main is run on the same disk
MaxRuns == 2

SName(stem) == CHOOSE n \in SNames : n.stem = stem
SPath(dir, stem) == [dir |-> dir, name |-> SName(stem)]

SeedDisks ==
    { [p \in SPaths |->
         IF p = SPath("in", "a") THEN fa
         ELSE IF p = SPath("in", "b") THEN fb
         ELSE IF p = SPath("in", "c") THEN fc
         ELSE NoFile] :
      fa \in {NoFile} \cup {FileOf(c) : c \in StripInputs},
      fb \in {NoFile} \cup {FileOf(c) : c \in DirInputs},
      fc \in {NoFile, FileOf(Wrap(StdBundle))} }

NoCall ==
    [valid |-> FALSE, inp |-> SPath("in", "a"), outp |-> SPath("in", "a"),
     before |-> <<>>, raised |-> FALSE, ret |-> FALSE, after |-> NoFile,
     inAfter |-> NoFile, version |-> 0, warnMagic |-> FALSE, warnHash |-> FALSE]

\* the observation of one call of strip_cfs_header
CallRecord(d, inp, outp) ==
    LET r == StripCfsHeader(d, inp, outp) IN
    [valid |-> TRUE, inp |-> inp, outp |-> outp, before |-> d[inp].bytes,
     raised |-> r.raised, ret |-> r.ret, after |-> r.disk[outp],
     inAfter |-> r.disk[inp], version |-> r.version,
     warnMagic |-> r.warnMagic, warnHash |-> r.warnHash]

ZeroStats == [cfs_stripped |-> 0, already_standard |-> 0, errors |-> 0, total |-> 0]

NoArgs == [mode |-> "none"]

\* the engine before it is started / when it is not part of the run
NoStep ==
    [kind |-> "none", obj |-> <<>>, oid |-> <<>>, res |-> "none",
     statsBefore |-> <<>>, texBefore |-> <<>>, outBefore |-> <<>>,
     written |-> <<>>, biBefore |-> 0]

NoTotals == [success |-> -1, failed |-> -1]

ZeroTex == [extracted |-> 0, failed |-> 0, skipped |-> 0]

ZeroHist ==
    [notRequested |-> 0, noExporter |-> 0, unsupported |-> 0,
     loadFailed |-> 0, loadOk |-> 0, firstFail |-> 0]

EngineIdle ==
    /\ args = [tool |-> "none"]
    /\ srcdir = {}
    /\ extract_types = {}
    /\ bundles = <<>>
    /\ bi = 0
    /\ epc = "off"
    /\ seen = {}
    /\ out = <<>>
    /\ stats = <<>>
    /\ tex = ZeroTex
    /\ totals = NoTotals
    /\ exitCode = -1
    /\ nobj = 0
    /\ hist = ZeroHist
    /\ log = <<>>
    /\ step = NoStep

InitStrip ==
    /\ EngineIdle
    /\ disk \in SeedDisks
    /\ spc = "idle"
    /\ sargs = NoArgs
    /\ sfiles = <<>>
    /\ sidx = 0
    /\ sstats = ZeroStats
    /\ sexit = -1
    /\ nruns = 0
    /\ last = NoCall
    /\ prev = NoCall

\* main: len(sys.argv) < 3: usage, sys.exit(1)
SMainUsage ==
    /\ spc = "idle" /\ nruns < MaxRuns
    /\ nruns' = nruns + 1
    /\ sargs' = [mode |-> "usage"]
    /\ sexit' = 1
    /\ UNCHANGED <<disk, spc, sfiles, sidx, sstats, last, prev>>
    /\ UNCHANGED engVars

\* main: input_path is neither a file nor a directory: sys.exit(1)
SMainMissing ==
    /\ spc = "idle" /\ nruns < MaxRuns
    /\ \E inp \in SPaths :
         /\ ~disk[inp].exists
         /\ inp.dir = "in"
         /\ sargs' = [mode |-> "missing", inp |-> inp]
    /\ nruns' = nruns + 1
    /\ sexit' = 1
    /\ UNCHANGED <<disk, spc, sfiles, sidx, sstats, last, prev>>
    /\ UNCHANGED engVars

\* main, single file mode: os.path.isfile(input_path); an exception of
\* strip_cfs_header is not caught and ends the process with status 1
SMainFile ==
    /\ spc = "idle" /\ nruns < MaxRuns
    /\ \E inp \in SPaths, outp \in SPaths :
         /\ disk[inp].exists
         /\ LET r == StripCfsHeader(disk, inp, outp) IN
            /\ disk' = r.disk
            /\ sexit' = IF r.raised THEN 1 ELSE 0
            /\ last' = CallRecord(disk, inp, outp)
            /\ prev' = last
         /\ sargs' = [mode |-> "file", inp |-> inp, outp |-> outp]
    /\ nruns' = nruns + 1
    /\ UNCHANGED <<spc, sfiles, sidx, sstats>>
    /\ UNCHANGED engVars

\* process_directory: the files of input_dir that are looked at
BundleExtensions == {".bundle", ".unity3d", ".assets", ".resource", ""}

DirFiles(d, dir) == {p \in SPaths : p.dir = dir /\ d[p].exists}

DirCandidates(d, dir) ==
    LET files == {p \in DirFiles(d, dir) :
                    p.name.suffix \in BundleExtensions \/ p.name.suffix = ""}
    IN IF files = {} THEN DirFiles(d, dir) ELSE files

\* main, directory mode: os.path.isdir(input_path); process_directory up to
\* its loop
SMainDir ==
    /\ spc = "idle" /\ nruns < MaxRuns
    /\ \E ind \in SDirs, outd \in SDirs :
         /\ sargs' = [mode |-> "dir", inp |-> ind, outp |-> outd]
         /\ sfiles' = SortedByStem(DirCandidates(disk, ind))
    /\ nruns' = nruns + 1
    /\ sidx' = 1
    /\ sstats' = ZeroStats
    /\ spc' = "loop"
    /\ sexit' = -1
    /\ UNCHANGED <<disk, last, prev>>
    /\ UNCHANGED engVars

\* CountFile with the except branch leaving the error count alone
CountFileNoError(st, r) ==
    LET counted == [st EXCEPT !.total = @ + 1]
    IN IF r.raised THEN counted
       ELSE IF r.ret THEN [counted EXCEPT !.cfs_stripped = @ + 1]
       ELSE [counted EXCEPT !.already_standard = @ + 1]

\* process_directory, body of the loop: stats["total"] += 1, then one of
\* cfs_stripped / already_standard after the call, or errors in the
\* "except Exception" branch
CountFile(st, r) ==
    LET counted == [st EXCEPT !.total = @ + 1]
    IN IF r.raised THEN [counted EXCEPT !.errors = @ + 1]
       ELSE IF r.ret THEN [counted EXCEPT !.cfs_stripped = @ + 1]
       ELSE [counted EXCEPT !.already_standard = @ + 1]

\* process_directory: one iteration of "for filepath in sorted(files)"
SProcessFile ==
    /\ spc = "loop" /\ sidx <= Len(sfiles)
    /\ LET filepath == sfiles[sidx]
           out_file == [dir |-> sargs.outp, name |-> filepath.name]
           r == StripCfsHeader(disk, filepath, out_file)
       IN /\ disk' = r.disk
          /\ sstats' = CountFile(sstats, r)
          /\ last' = CallRecord(disk, filepath, out_file)
          /\ prev' = last
    /\ sidx' = sidx + 1
    /\ UNCHANGED <<spc, sargs, sfiles, sexit, nruns>>
    /\ UNCHANGED engVars

\* process_directory returns; main prints the counts and ends
SDirDone ==
    /\ spc = "loop" /\ sidx > Len(sfiles)
    /\ spc' = "idle"
    /\ sexit' = 0
    /\ UNCHANGED <<disk, sargs, sfiles, sidx, sstats, nruns, last, prev>>
    /\ UNCHANGED engVars

NextStrip ==
    \/ SMainUsage
    \/ SMainMissing
    \/ SMainFile
    \/ SMainDir
    \/ SProcessFile
    \/ SDirDone

SpecStrip == InitStrip /\ [][NextStrip]_vars

(***************************************************************************)
(* File names of the exporters                                             *)
(***************************************************************************)

\* str.isalnum() on the characters the model uses
AlnumChars ==
    { "a", "b", "d", "e", "f", "h", "i", "m", "n", "o", "p", "r", "s", "t",
      "u", "x", "y", "0", "1", "2", "3", "4", "5", "6", "7", "8", "9" }

\* safe_filename: one character
SafeChar(c) == IF c \in AlnumChars \/ c \in {".", "_", "-"} THEN c ELSE "_"

\* safe_filename(name)
safe_filename(name) == [i \in 1..Len(name) |-> SafeChar(name[i])]

DigitChar == <<"0", "1", "2", "3", "4", "5", "6", "7", "8", "9">>

\* str(n) of a natural number
RECURSIVE NatStr(_)
NatStr(n) ==
    IF n < 10 THEN <<DigitChar[n + 1]>>
    ELSE NatStr(n \div 10) \o <<DigitChar[(n % 10) + 1]>>

\* str(n) of an integer, as an f-string formats path_id, m_Width, m_Height
IntStr(n) == IF n < 0 THEN <<"-">> \o NatStr(0 - n) ELSE NatStr(n)

\* data.m_Name or f"<prefix>_{obj.path_id}"
NameOrDefault(name, prefix, path_id) ==
    IF name = <<>> THEN prefix \o <<"_">> \o IntStr(path_id) ELSE name

\* os.path.join(output_dir, file)
Join(dir, file) == [dir |-> dir, file |-> file]

\* os.path.exists(outpath)
Exists(d, path) == path \in DOMAIN d

\* "if os.path.exists(outpath): outpath = <stem>_<path_id><ext>"
Resolve(d, dir, stem, ext, path_id) ==
    IF Exists(d, Join(dir, stem \o ext))
    THEN Join(dir, stem \o <<"_">> \o IntStr(path_id) \o ext)
    ELSE Join(dir, stem \o ext)

\* a file written in full / a file left open()ed but not (fully) written
Whole(oid, part, data) == [owner |-> oid, part |-> part, data |-> data, complete |-> TRUE]
Broken(oid, part) == [owner |-> oid, part |-> part, data |-> <<>>, complete |-> FALSE]

\* open(outpath, "w") ... f.write(...) / img.save(outpath)
Put(d, path, content) == (path :> content) @@ d

EXT_PNG == <<".", "p", "n", "g">>
EXT_OBJ == <<".", "o", "b", "j">>
EXT_WAV == <<".", "w", "a", "v">>
EXT_OGG == <<".", "o", "g", "g">>
EXT_MP3 == <<".", "m", "p", "3">>
EXT_TXT == <<".", "t", "x", "t">>
EXT_BYTES == <<".", "b", "y", "t", "e", "s">>
EXT_TTF == <<".", "t", "t", "f">>
EXT_OTF == <<".", "o", "t", "f">>

\* the result of an exporter call: res is "true", "false" or "raise"; out
\* is the output tree after it; written lists the files written in full,
\* each with the path first computed for it (base) and the path used
Outcome(res, d, written) == [res |-> res, out |-> d, written |-> written]

Wr(path, base, path_id, part) ==
    [path |-> path, base |-> base, path_id |-> path_id, part |-> part]

(***************************************************************************)
(* The exporters of extract_assets.py                                      *)
(*                                                                         *)
(* An object is [type, path_id, name, kind, w, h, data, samples]; kind     *)
(* says what the external parser and the file system do with it:           *)
(*   "ok"        the fields decode and the write succeeds                  *)
(*   "empty"     the payload is missing (no image, no mesh text, no font)  *)
(*   "readraise" obj.read() raises                                         *)
(*   "badwrite"  the write raises after open() created the file            *)
(*   "binary"    a TextAsset whose m_Script is not a str                   *)
(* oid names the object (its bundle and its ordinal in the run); d is the  *)
(* output tree, a function from the paths that exist to their contents.    *)
(***************************************************************************)

\* f"{name}_{data.m_Width}x{data.m_Height}"
TextureStem(obj) ==
    safe_filename(NameOrDefault(obj.name, <<"t", "e", "x", "t", "u", "r", "e">>, obj.path_id))
        \o <<"_">> \o IntStr(obj.w) \o <<"x">> \o IntStr(obj.h)

extract_texture2d(obj, oid, dir, d) ==
    IF obj.kind = "readraise" THEN Outcome("raise", d, <<>>)
    ELSE IF obj.kind = "ok" /\ obj.w > 0 /\ obj.h > 0
    THEN LET outpath == Resolve(d, dir, TextureStem(obj), EXT_PNG, obj.path_id)
             base == Join(dir, TextureStem(obj) \o EXT_PNG)
         IN Outcome("true", Put(d, outpath, Whole(oid, 0, obj.data)),
                    <<Wr(outpath, base, obj.path_id, 0)>>)
    ELSE Outcome("false", d, <<>>)

extract_mesh(obj, oid, dir, d) ==
    IF obj.kind = "readraise" THEN Outcome("raise", d, <<>>)
    ELSE LET name == safe_filename(NameOrDefault(obj.name, <<"m", "e", "s", "h">>, obj.path_id))
             outpath == Resolve(d, dir, name, EXT_OBJ, obj.path_id)
         IN IF obj.kind = "ok"
            THEN Outcome("true", Put(d, outpath, Whole(oid, 0, obj.data)),
                         <<Wr(outpath, Join(dir, name \o EXT_OBJ), obj.path_id, 0)>>)
            ELSE IF obj.kind = "badwrite"
            THEN Outcome("false", Put(d, outpath, Broken(oid, 0)), <<>>)
            ELSE Outcome("false", d, <<>>)

\* the extension chosen from the first bytes of a sample
AudioExt(audio_data) ==
    IF Take(audio_data, 4) = <<79, 103, 103, 83>> THEN EXT_OGG
    ELSE IF Take(audio_data, 4) = <<82, 73, 70, 70>> THEN EXT_WAV
    ELSE IF Take(audio_data, 2) = <<255, 251>> \/ Take(audio_data, 3) = <<73, 68, 51>>
    THEN EXT_MP3
    ELSE EXT_WAV

\* "for name_str, audio_data in samples.items()" from sample i on; a sample
\* of kind "notbytes" raises before its file is opened, one of kind
\* "badwrite" after; the exception ends the loop and the exporter returns
\* False
RECURSIVE AudioLoop(_, _, _, _, _, _)
AudioLoop(obj, oid, dir, d, i, written) ==
    IF i > Len(obj.samples) THEN Outcome("true", d, written)
    ELSE LET smp == obj.samples[i]
             name == safe_filename(NameOrDefault(smp.name, <<"a", "u", "d", "i", "o">>, obj.path_id))
             outpath == Resolve(d, dir, name, AudioExt(smp.data), obj.path_id)
         IN IF smp.kind = "notbytes" THEN Outcome("false", d, written)
            ELSE IF smp.kind = "badwrite"
            THEN Outcome("false", Put(d, outpath, Broken(oid, i)), written)
            ELSE AudioLoop(obj, oid, dir, Put(d, outpath, Whole(oid, i, smp.data)),
                           i + 1,
                           Append(written,
                                  Wr(outpath, Join(dir, name \o AudioExt(smp.data)),
                                     obj.path_id, i)))

extract_audioclip(obj, oid, dir, d) ==
    IF obj.kind = "readraise" THEN Outcome("raise", d, <<>>)
    ELSE IF obj.samples = <<>> THEN Outcome("false", d, <<>>)
    ELSE AudioLoop(obj, oid, dir, d, 1, <<>>)

extract_textasset(obj, oid, dir, d) ==
    IF obj.kind = "readraise" THEN Outcome("raise", d, <<>>)
    ELSE LET name == safe_filename(NameOrDefault(obj.name, <<"t", "e", "x", "t">>, obj.path_id))
             ext == IF obj.kind = "ok" THEN EXT_TXT ELSE EXT_BYTES
             outpath == Resolve(d, dir, name, ext, obj.path_id)
         IN IF obj.kind = "badwrite"
            THEN Outcome("false", Put(d, outpath, Broken(oid, 0)), <<>>)
            ELSE Outcome("true", Put(d, outpath, Whole(oid, 0, obj.data)),
                         <<Wr(outpath, Join(dir, name \o ext), obj.path_id, 0)>>)

extract_font(obj, oid, dir, d) ==
    IF obj.kind = "readraise" THEN Outcome("raise", d, <<>>)
    ELSE IF obj.kind = "empty" \/ obj.data = <<>> THEN Outcome("false", d, <<>>)
    ELSE LET name == safe_filename(NameOrDefault(obj.name, <<"f", "o", "n", "t">>, obj.path_id))
             ext == IF Take(obj.data, 4) = <<79, 84, 84, 79>> THEN EXT_OTF ELSE EXT_TTF
             outpath == Resolve(d, dir, name, ext, obj.path_id)
         IN IF obj.kind = "badwrite"
            THEN Outcome("false", Put(d, outpath, Broken(oid, 0)), <<>>)
            ELSE Outcome("true", Put(d, outpath, Whole(oid, 0, obj.data)),
                         <<Wr(outpath, Join(dir, name \o ext), obj.path_id, 0)>>)

extract_sprite(obj, oid, dir, d) ==
    IF obj.kind = "readraise" THEN Outcome("raise", d, <<>>)
    ELSE IF obj.kind = "ok" /\ obj.w > 0 /\ obj.h > 0
    THEN LET name == safe_filename(NameOrDefault(obj.name, <<"s", "p", "r", "i", "t", "e">>, obj.path_id))
             outpath == Resolve(d, dir, name, EXT_PNG, obj.path_id)
         IN Outcome("true", Put(d, outpath, Whole(oid, 0, obj.data)),
                    <<Wr(outpath, Join(dir, name \o EXT_PNG), obj.path_id, 0)>>)
    ELSE Outcome("false", d, <<>>)

SUPPORTED_TYPES ==
    { "Texture2D", "Mesh", "AudioClip", "TextAsset",
      "Font", "Sprite", "AnimationClip", "MonoBehaviour" }

\* EXTRACTORS.keys()
EXTRACTOR_TYPES == {"Texture2D", "Mesh", "AudioClip", "TextAsset", "Font", "Sprite"}

\* EXTRACTORS[type_name](obj, output_subdir)
EXTRACTORS(type_name, obj, oid, dir, d) ==
    CASE type_name = "Texture2D" -> extract_texture2d(obj, oid, dir, d)
      [] type_name = "Mesh" -> extract_mesh(obj, oid, dir, d)
      [] type_name = "AudioClip" -> extract_audioclip(obj, oid, dir, d)
      [] type_name = "TextAsset" -> extract_textasset(obj, oid, dir, d)
      [] type_name = "Font" -> extract_font(obj, oid, dir, d)
      [] OTHER -> extract_sprite(obj, oid, dir, d)

(***************************************************************************)
(* Bundle discovery                                                        *)
(***************************************************************************)

\* Common bundle extensions
BUNDLE_SUFFIXES == {".bundle", ".unity3d", ".assets", ".resource"}

\* the size a file without extension must exceed
MIN_BUNDLE_SIZE == 100

\* str.lower() on the suffixes of the model
Lower(suffix) ==
    CASE suffix = ".BUNDLE" -> ".bundle"
      [] suffix = ".Assets" -> ".assets"
      [] OTHER -> suffix

\* sorted(bundles): paths compare by their names; the stems of the model
\* are single letters
RECURSIVE SortFiles(_)
SortFiles(S) ==
    IF S = {} THEN <<>>
    ELSE LET m == CHOOSE x \in S : \A y \in S : StemRank(x.stem) <= StemRank(y.stem)
         IN <<m>> \o SortFiles(S \ {m})

\* find_bundles taking a file without extension whatever its size
find_bundlesAnySize(listing) ==
    LET found == {f \in listing :
                      \/ Lower(f.suffix) \in BUNDLE_SUFFIXES
                      \/ f.suffix = ""}
        fallback == {f \in listing : f.size > MIN_BUNDLE_SIZE}
    IN SortFiles(IF found = {} THEN fallback ELSE found)

\* find_bundles(bundle_dir): listing is the set of files under bundle_dir,
\* each [stem, suffix, size]
find_bundles(listing) ==
    LET found == {f \in listing :
                      \/ Lower(f.suffix) \in BUNDLE_SUFFIXES
                      \/ (f.suffix = "" /\ f.size > MIN_BUNDLE_SIZE)}
        fallback == {f \in listing : f.size > MIN_BUNDLE_SIZE}
    IN SortFiles(IF found = {} THEN fallback ELSE found)

BFile(stem, suffix, size) == [stem |-> stem, suffix |-> suffix, size |-> size]

\* the source directories of the model
SourceDirs ==
    { {},
      {BFile("e", "", 0)},
      {BFile("c", ".txt", 500)},
      {BFile("a", ".bundle", 4096)},
      {BFile("a", ".BUNDLE", 4096), BFile("b", "", 2048), BFile("e", "", 0)},
      {BFile("a", ".bundle", 4096), BFile("b", "", 101), BFile("c", ".txt", 500),
       BFile("d", ".Assets", 50)} }

\* the files a directory handed to find_bundles alone is made of: known
\* extensions in either case and of any size, no extension with sizes 0, at
\* and above the threshold, other extensions at and above the threshold
FindUniverse ==
    { BFile("a", ".bundle", 50), BFile("b", "", 101), BFile("c", ".txt", 500),
      BFile("d", ".Assets", 4096), BFile("e", "", 0), BFile("f", "", 100),
      BFile("g", ".txt", 100), BFile("h", ".unity3d", 0) }

(***************************************************************************)
(* The objects the external parser yields                                  *)
(***************************************************************************)

Obj(type, path_id, name, kind, w, h, data, samples) ==
    [type |-> type, path_id |-> path_id, name |-> name, kind |-> kind,
     w |-> w, h |-> h, data |-> data, samples |-> samples]

Sample(name, kind, data) == [name |-> name, kind |-> kind, data |-> data]

\* the largest path_id of the model
MaxPathId == 2

PathIds == 1..MaxPathId

OGG == <<79, 103, 103, 83, 0>>
RIFF == <<82, 73, 70, 70, 0>>

ObjectUniverse ==
    {Obj("Mesh", i, <<"x">>, "ok", 0, 0, <<2>>, <<>>) : i \in PathIds}
    \cup {Obj("Mesh", 1, <<"x", " ", "2">>, "ok", 0, 0, <<2>>, <<>>),
          Obj("Mesh", 1, <<"x">>, "empty", 0, 0, <<>>, <<>>),
          Obj("Mesh", 1, <<"x">>, "badwrite", 0, 0, <<2>>, <<>>)}
    \cup {Obj("Texture2D", 1, <<"x">>, "ok", 32, 32, <<1>>, <<>>),
          Obj("Texture2D", 1, <<"x">>, "ok", 8, 8, <<1>>, <<>>),
          Obj("Texture2D", 1, <<"x">>, "ok", 0, 32, <<>>, <<>>),
          Obj("Texture2D", 1, <<"x">>, "readraise", 32, 32, <<>>, <<>>)}
    \cup {Obj("AudioClip", 1, <<"x">>, "ok", 0, 0, <<>>,
              <<Sample(<<"y">>, "ok", OGG), Sample(<<"z">>, "notbytes", <<>>)>>),
          Obj("AudioClip", 1, <<"x">>, "ok", 0, 0, <<>>,
              <<Sample(<<"y", "/", "1">>, "ok", RIFF), Sample(<<"y", "_", "1">>, "ok", RIFF)>>),
          Obj("AudioClip", 1, <<"x">>, "ok", 0, 0, <<>>, <<>>)}
    \cup {Obj("TextAsset", 1, <<"x">>, "ok", 0, 0, <<3>>, <<>>),
          Obj("TextAsset", 1, <<"x">>, "binary", 0, 0, <<3>>, <<>>),
          Obj("TextAsset", 1, <<"x">>, "badwrite", 0, 0, <<3>>, <<>>)}
    \cup {Obj("Font", 1, <<"x">>, "ok", 0, 0, <<79, 84, 84, 79>>, <<>>),
          Obj("Font", 1, <<"x">>, "ok", 0, 0, <<0, 1, 0, 0>>, <<>>),
          Obj("Font", 1, <<"x">>, "empty", 0, 0, <<>>, <<>>)}
    \cup {Obj("Sprite", 1, <<>>, "ok", 16, 16, <<4>>, <<>>),
          Obj("Sprite", 1, <<"x">>, "empty", 0, 0, <<>>, <<>>)}
    \cup {Obj("AnimationClip", 1, <<"x">>, "ok", 0, 0, <<>>, <<>>),
          Obj("Shader", 1, <<"x">>, "ok", 0, 0, <<>>, <<>>)}

(***************************************************************************)
(* The extraction engines: main() of extract_assets.py and of              *)
(* extract_textures.py                                                     *)
(***************************************************************************)

\* the most objects the parser yields in one run
MaxObjects == 3

\* the command lines of the model; ok = FALSE: a required argument is
\* missing and argparse ends the process with status 2
Args(tool, ok, typesGiven, types, min_size) ==
    [tool |-> tool, ok |-> ok, typesGiven |-> typesGiven, types |-> types,
     min_size |-> min_size]

ArgsUniverse ==
    { Args("assets", FALSE, FALSE, {}, 0),
      Args("assets", TRUE, FALSE, {}, 0),
      Args("assets", TRUE, TRUE, {"Mesh", "AnimationClip", "Bogus"}, 0),
      Args("textures", FALSE, FALSE, {}, 0),
      Args("textures", TRUE, FALSE, {}, 0),
      Args("textures", TRUE, FALSE, {}, 16) }

\* the normalizer when it is not part of the run
StripIdle ==
    /\ disk = [p \in SPaths |-> NoFile]
    /\ spc = "off"
    /\ sargs = NoArgs
    /\ sfiles = <<>>
    /\ sidx = 0
    /\ sstats = ZeroStats
    /\ sexit = -1
    /\ nruns = 0
    /\ last = NoCall
    /\ prev = NoCall

Init ==
    /\ StripIdle
    /\ args \in ArgsUniverse
    /\ srcdir \in SourceDirs
    /\ extract_types = {}
    /\ bundles = <<>>
    /\ bi = 0
    /\ epc = "start"
    /\ seen = {}
    /\ out = <<>>
    /\ stats = <<>>
    /\ tex = ZeroTex
    /\ totals = NoTotals
    /\ exitCode = -1
    /\ nobj = 0
    /\ hist = ZeroHist
    /\ log = <<>>
    /\ step = NoStep

\* the observation of one exporter call
Call(type_name, res, oid, written) ==
    [type |-> type_name, res |-> res, oid |-> oid, written |-> written]

\* the observation of a step that touches neither counters nor files
Mark(kind) ==
    [kind |-> kind, obj |-> <<>>, oid |-> <<>>, res |-> "none",
     statsBefore |-> stats, texBefore |-> tex, outBefore |-> out,
     written |-> <<>>, biBefore |-> bi]

\* the observation of the step that handled obj
ObjStep(obj, oid, res, written) ==
    [kind |-> "object", obj |-> obj, oid |-> oid, res |-> res,
     statsBefore |-> stats, texBefore |-> tex, outBefore |-> out,
     written |-> written, biBefore |-> bi]

\* "Parse types": the requested type set
RequestedTypes(a) ==
    IF a.typesGiven /\ a.types # {} THEN a.types \cap SUPPORTED_TYPES
    ELSE EXTRACTOR_TYPES

\* main of either tool, argparse rejecting the command line
ArgError ==
    /\ epc = "start" /\ ~args.ok
    /\ exitCode' = 2
    /\ epc' = "done"
    /\ step' = Mark("argerror")
    /\ UNCHANGED <<args, srcdir, extract_types, bundles, bi, seen, out, stats,
                   tex, totals, nobj, hist, log>>
    /\ UNCHANGED stripVars

\* extract_assets.main from parse_args to the head of the bundle loop
A_Start ==
    /\ epc = "start" /\ args.ok /\ args.tool = "assets"
    /\ extract_types' = RequestedTypes(args)
    /\ bundles' = find_bundles(srcdir)
    /\ bi' = 1
    /\ epc' = "loop"
    /\ step' = Mark("start")
    /\ UNCHANGED <<args, srcdir, seen, out, stats, tex, totals, exitCode, nobj,
                   hist, log>>
    /\ UNCHANGED stripVars

\* the index of the bundle the loop turns to after UnityPy.load raised
AbortAfterLoadError(i) == Len(bundles) + 1
AfterLoadError(i) == i + 1

\* extract_assets.main: UnityPy.load raises; the error is passed over in
\* silence or printed, by its text
A_LoadRaise ==
    /\ epc = "loop" /\ args.tool = "assets" /\ bi <= Len(bundles)
    /\ \E silent \in BOOLEAN :
         step' = [Mark("loadfail") EXCEPT !.res = IF silent THEN "silent" ELSE "printed"]
    /\ bi' = AfterLoadError(bi)
    /\ hist' = [hist EXCEPT !.loadFailed = @ + 1,
                             !.firstFail = IF @ = 0 THEN bi ELSE @]
    /\ UNCHANGED <<args, srcdir, extract_types, bundles, epc, seen, out, stats,
                   tex, totals, exitCode, nobj, log>>
    /\ UNCHANGED stripVars

\* extract_assets.main: UnityPy.load returns an environment
A_Load ==
    /\ epc = "loop" /\ args.tool = "assets" /\ bi <= Len(bundles)
    /\ epc' = "objs"
    /\ seen' = {}
    /\ hist' = [hist EXCEPT !.loadOk = @ + 1]
    /\ step' = Mark("load")
    /\ UNCHANGED <<args, srcdir, extract_types, bundles, bi, out, stats, tex,
                   totals, exitCode, nobj, log>>
    /\ UNCHANGED stripVars

\* "if type_name in extract_types and type_name in EXTRACTORS"
DispatchesAnyRequested(type_name, types) == type_name \in types
DispatchesAnyExporter(type_name, types) == type_name \in EXTRACTOR_TYPES
Dispatches(type_name, types) ==
    type_name \in types /\ type_name \in EXTRACTOR_TYPES

\* stats[type_name]["success"] += 1 / stats[type_name]["failed"] += 1 on
\* the defaultdict
Bucket(st, type_name) ==
    IF type_name \in DOMAIN st THEN st[type_name] ELSE [success |-> 0, failed |-> 0]

TallyIgnoreRaise(st, type_name, res) ==
    IF res = "raise" THEN st
    ELSE IF res = "true"
    THEN (type_name :> [Bucket(st, type_name) EXCEPT !.success = @ + 1]) @@ st
    ELSE (type_name :> [Bucket(st, type_name) EXCEPT !.failed = @ + 1]) @@ st
Tally(st, type_name, res) ==
    IF res = "true"
    THEN (type_name :> [Bucket(st, type_name) EXCEPT !.success = @ + 1]) @@ st
    ELSE (type_name :> [Bucket(st, type_name) EXCEPT !.failed = @ + 1]) @@ st

\* what the observation counters record of a yielded object
Seen(h, type_name, types) ==
    [h EXCEPT
       !.notRequested = IF type_name \notin types THEN @ + 1 ELSE @,
       !.noExporter = IF type_name \in types /\ type_name \notin EXTRACTOR_TYPES
                      THEN @ + 1 ELSE @,
       !.unsupported = IF type_name \notin SUPPORTED_TYPES THEN @ + 1 ELSE @]

\* extract_assets.main: one iteration of "for obj in env.objects"
A_Object ==
    /\ epc = "objs" /\ args.tool = "assets" /\ nobj < MaxObjects
    /\ \E obj \in ObjectUniverse :
         /\ obj.path_id \notin seen
         /\ seen' = seen \cup {obj.path_id}
         /\ hist' = Seen(hist, obj.type, extract_types)
         /\ LET type_name == obj.type
                oid == [bundle |-> bi, ord |-> nobj + 1]
            IN IF Dispatches(type_name, extract_types)
               THEN LET r == EXTRACTORS(type_name, obj, oid, type_name, out)
                    IN /\ out' = r.out
                       /\ stats' = Tally(stats, type_name, r.res)
                       /\ log' = Append(log, Call(type_name, r.res, oid, r.written))
                       /\ step' = ObjStep(obj, oid, r.res, r.written)
               ELSE /\ UNCHANGED <<out, stats, log>>
                    /\ step' = ObjStep(obj, oid, "skip", <<>>)
    /\ nobj' = nobj + 1
    /\ UNCHANGED <<args, srcdir, extract_types, bundles, bi, epc, tex, totals,
                   exitCode>>
    /\ UNCHANGED stripVars

\* extract_assets.main: env.objects is exhausted
A_EndBundle ==
    /\ epc = "objs" /\ args.tool = "assets"
    /\ bi' = bi + 1
    /\ epc' = "loop"
    /\ step' = Mark("endbundle")
    /\ UNCHANGED <<args, srcdir, extract_types, bundles, seen, out, stats, tex,
                   totals, exitCode, nobj, hist, log>>
    /\ UNCHANGED stripVars

RECURSIVE SumField(_, _, _)
SumField(st, keys, field) ==
    IF keys = {} THEN 0
    ELSE LET k == CHOOSE x \in keys : TRUE
         IN st[k][field] + SumField(st, keys \ {k}, field)

\* extract_assets.main: "Print summary", and the process ends
A_Summary ==
    /\ epc = "loop" /\ args.tool = "assets" /\ bi > Len(bundles)
    /\ totals' = [success |-> SumField(stats, DOMAIN stats, "success"),
                  failed |-> SumField(stats, DOMAIN stats, "failed")]
    /\ exitCode' = 0
    /\ epc' = "done"
    /\ step' = Mark("summary")
    /\ UNCHANGED <<args, srcdir, extract_types, bundles, bi, seen, out, stats,
                   tex, nobj, hist, log>>
    /\ UNCHANGED stripVars

\* extract_textures.main from parse_args to the head of the bundle loop
T_Start ==
    /\ epc = "start" /\ args.ok /\ args.tool = "textures"
    /\ bundles' = find_bundles(srcdir)
    /\ bi' = 1
    /\ epc' = "loop"
    /\ step' = Mark("start")
    /\ UNCHANGED <<args, srcdir, extract_types, seen, out, stats, tex, totals,
                   exitCode, nobj, hist, log>>
    /\ UNCHANGED stripVars

\* extract_textures.main: UnityPy.load raises: "except Exception: pass"
T_LoadRaise ==
    /\ epc = "loop" /\ args.tool = "textures" /\ bi <= Len(bundles)
    /\ step' = [Mark("loadfail") EXCEPT !.res = "silent"]
    /\ bi' = bi + 1
    /\ hist' = [hist EXCEPT !.loadFailed = @ + 1,
                             !.firstFail = IF @ = 0 THEN bi ELSE @]
    /\ UNCHANGED <<args, srcdir, extract_types, bundles, epc, seen, out, stats,
                   tex, totals, exitCode, nobj, log>>
    /\ UNCHANGED stripVars

\* extract_textures.main: UnityPy.load returns an environment
T_Load ==
    /\ epc = "loop" /\ args.tool = "textures" /\ bi <= Len(bundles)
    /\ epc' = "objs"
    /\ seen' = {}
    /\ hist' = [hist EXCEPT !.loadOk = @ + 1]
    /\ step' = Mark("load")
    /\ UNCHANGED <<args, srcdir, extract_types, bundles, bi, out, stats, tex,
                   totals, exitCode, nobj, log>>
    /\ UNCHANGED stripVars

\* extract_textures.main: the body of "if obj.type.name == 'Texture2D'";
\* res is "true" (extracted), "false" or "raise" (failed), "small" (skipped)
TextureBody(obj, oid, dir, d, min_size) ==
    IF obj.kind = "readraise" THEN Outcome("raise", d, <<>>)
    ELSE IF min_size > 0 /\ obj.w < min_size /\ obj.h < min_size
    THEN Outcome("small", d, <<>>)
    ELSE IF obj.kind = "ok" /\ obj.w > 0 /\ obj.h > 0
    THEN LET outpath == Resolve(d, dir, TextureStem(obj), EXT_PNG, obj.path_id)
             base == Join(dir, TextureStem(obj) \o EXT_PNG)
         IN Outcome("true", Put(d, outpath, Whole(oid, 0, obj.data)),
                    <<Wr(outpath, base, obj.path_id, 0)>>)
    ELSE Outcome("false", d, <<>>)

\* extracted += 1 / failed += 1 / skipped += 1
TexTally(t, res) ==
    IF res = "true" THEN [t EXCEPT !.extracted = @ + 1]
    ELSE IF res = "small" THEN [t EXCEPT !.skipped = @ + 1]
    ELSE [t EXCEPT !.failed = @ + 1]

\* extract_textures.main: one iteration of "for obj in env.objects"
T_Object ==
    /\ epc = "objs" /\ args.tool = "textures" /\ nobj < MaxObjects
    /\ \E obj \in ObjectUniverse :
         /\ obj.path_id \notin seen
         /\ seen' = seen \cup {obj.path_id}
         /\ hist' = Seen(hist, obj.type, {"Texture2D"})
         /\ LET oid == [bundle |-> bi, ord |-> nobj + 1]
            IN IF obj.type = "Texture2D"
               THEN LET r == TextureBody(obj, oid, ".", out, args.min_size)
                    IN /\ out' = r.out
                       /\ tex' = TexTally(tex, r.res)
                       /\ log' = Append(log, Call(obj.type, r.res, oid, r.written))
                       /\ step' = ObjStep(obj, oid, r.res, r.written)
               ELSE /\ UNCHANGED <<out, tex, log>>
                    /\ step' = ObjStep(obj, oid, "skip", <<>>)
    /\ nobj' = nobj + 1
    /\ UNCHANGED <<args, srcdir, extract_types, bundles, bi, epc, stats, totals,
                   exitCode>>
    /\ UNCHANGED stripVars

\* extract_textures.main: env.objects is exhausted
T_EndBundle ==
    /\ epc = "objs" /\ args.tool = "textures"
    /\ bi' = bi + 1
    /\ epc' = "loop"
    /\ step' = Mark("endbundle")
    /\ UNCHANGED <<args, srcdir, extract_types, bundles, seen, out, stats, tex,
                   totals, exitCode, nobj, hist, log>>
    /\ UNCHANGED stripVars

\* extract_textures.main: the summary is printed and the process ends
T_Summary ==
    /\ epc = "loop" /\ args.tool = "textures" /\ bi > Len(bundles)
    /\ exitCode' = 0
    /\ epc' = "done"
    /\ step' = Mark("summary")
    /\ UNCHANGED <<args, srcdir, extract_types, bundles, bi, seen, out, stats,
                   tex, totals, nobj, hist, log>>
    /\ UNCHANGED stripVars

Next ==
    \/ ArgError
    \/ A_Start
    \/ A_LoadRaise
    \/ A_Load
    \/ A_Object
    \/ A_EndBundle
    \/ A_Summary
    \/ T_Start
    \/ T_LoadRaise
    \/ T_Load
    \/ T_Object
    \/ T_EndBundle
    \/ T_Summary

Spec == Init /\ [][Next]_vars

(***************************************************************************)
(* find_bundles on its own                                                 *)
(***************************************************************************)

\* a directory of any files of FindUniverse, before discovery
InitFind ==
    /\ StripIdle
    /\ args = [tool |-> "none"]
    /\ srcdir \in SUBSET FindUniverse
    /\ extract_types = {}
    /\ bundles = <<>>
    /\ bi = 0
    /\ epc = "find"
    /\ seen = {}
    /\ out = <<>>
    /\ stats = <<>>
    /\ tex = ZeroTex
    /\ totals = NoTotals
    /\ exitCode = -1
    /\ nobj = 0
    /\ hist = ZeroHist
    /\ log = <<>>
    /\ step = NoStep

\* bundles = find_bundles(args.bundle_dir)
FindBundles ==
    /\ epc = "find"
    /\ bundles' = find_bundles(srcdir)
    /\ epc' = "found"
    /\ UNCHANGED <<args, srcdir, extract_types, bi, seen, out, stats, tex,
                   totals, exitCode, nobj, hist, log, step>>
    /\ UNCHANGED stripVars

NextFind == FindBundles

SpecFind == InitFind /\ [][NextFind]_vars

(***************************************************************************)
(* Claims about the header normalizer (checked under SpecStrip)            *)
(***************************************************************************)

\* the first 8 bytes of b are the alternate magic
HasAltMagic(b) == Len(b) >= 8 /\ SubSeq(b, 1, 8) = CFS_MAGIC

\* input[32:]
After32(b) == IF Len(b) > 32 THEN SubSeq(b, 33, Len(b)) ELSE <<>>

\* C4, as stated: every call of strip_cfs_header on a file whose first 8
\* bytes are the alternate magic returns true and writes input[32:], which
\* is 32 bytes shorter than the input and starts with the standard magic.
C4_AsStated ==
    (last.valid /\ HasAltMagic(last.before)) =>
        /\ ~last.raised /\ last.ret /\ last.after.exists
        /\ last.after.bytes = After32(last.before)
        /\ Len(last.after.bytes) = Len(last.before) - CFS_HEADER_SIZE
        /\ StartsWith(last.after.bytes, UNITYFS_MAGIC)

\* C4, amended: every call of strip_cfs_header on a file of at least 32
\* bytes whose first 8 bytes are the alternate magic returns true and writes
\* exactly input[32:], 32 bytes shorter than the input; the output starts
\* with the standard magic exactly when no payload warning was printed.
C4_StripsHeader ==
    (last.valid /\ HasAltMagic(last.before)
       /\ Len(last.before) >= CFS_HEADER_SIZE) =>
        /\ ~last.raised /\ last.ret /\ last.after.exists
        /\ last.after.bytes = After32(last.before)
        /\ Len(last.after.bytes) = Len(last.before) - CFS_HEADER_SIZE
        /\ (StartsWith(last.after.bytes, UNITYFS_MAGIC) <=> ~last.warnMagic)

\* a header was stripped from a file whose payload is not a standard bundle
C4_Witness ==
    /\ last.valid /\ HasAltMagic(last.before) /\ last.ret
    /\ Len(last.before) > CFS_HEADER_SIZE
    /\ last.inp # last.outp
    /\ last.after.bytes = After32(last.before)
    /\ ~StartsWith(last.after.bytes, UNITYFS_MAGIC)

\* C5: every call of strip_cfs_header on a file whose first 8 bytes are not
\* the alternate magic (shorter and empty files included) returns false and
\* leaves at the output path a file byte-identical to the input.
C5_PassThrough ==
    (last.valid /\ ~HasAltMagic(last.before)) =>
        /\ ~last.raised /\ ~last.ret
        /\ last.after.exists /\ last.after.bytes = last.before

\* a file shorter than the magic was copied to another path
C5_Witness ==
    /\ last.valid /\ last.inp # last.outp
    /\ Len(last.before) > 0 /\ Len(last.before) < 8
    /\ ~last.ret /\ last.after.bytes = last.before

\* C6, as stated: when strip_cfs_header is run on the output B of an
\* earlier call, it returns false and writes a file byte-identical to B.
C6_AsStated ==
    (prev.valid /\ ~prev.raised /\ last.valid /\ last.inp = prev.outp
       /\ last.before = prev.after.bytes) =>
        /\ ~last.raised /\ ~last.ret
        /\ last.after.exists /\ last.after.bytes = prev.after.bytes

\* C6, amended: when strip_cfs_header is run on the output B of an earlier
\* call and B does not itself begin with the alternate magic, it returns
\* false and writes a file byte-identical to B.
C6_SecondPassCopies ==
    (prev.valid /\ ~prev.raised /\ last.valid /\ last.inp = prev.outp
       /\ last.before = prev.after.bytes
       /\ ~HasAltMagic(prev.after.bytes)) =>
        /\ ~last.raised /\ ~last.ret
        /\ last.after.exists /\ last.after.bytes = prev.after.bytes

\* a stripped bundle was normalized a second time and copied unchanged
C6_Witness ==
    /\ prev.valid /\ prev.ret /\ last.valid /\ last.inp = prev.outp
    /\ prev.inp # prev.outp /\ last.inp # last.outp
    /\ StartsWith(prev.after.bytes, UNITYFS_MAGIC)
    /\ ~last.ret /\ ~last.raised /\ last.after.bytes = prev.after.bytes

\* C7: after every call of strip_cfs_header, in single file mode and in
\* process_directory, the file at the input path holds the bytes it held
\* before the call.
C7_InputUntouched ==
    last.valid => (last.inAfter.exists /\ last.inAfter.bytes = last.before)

(***************************************************************************)
(* Claims about the extraction engines (checked under Spec)                *)
(***************************************************************************)

\* the files written in full so far, in order, each with its object
RECURSIVE Exports(_)
Exports(l) ==
    IF l = <<>> THEN <<>>
    ELSE LET c == l[Len(l)]
         IN Exports(SubSeq(l, 1, Len(l) - 1))
              \o [i \in 1..Len(c.written) |->
                    [type |-> c.type, oid |-> c.oid, w |-> c.written[i]]]

\* the number of exporter calls of the log on type t with a result in rs
CountCalls(t, rs) == Cardinality({i \in 1..Len(log) : log[i].type = t /\ log[i].res \in rs})

\* success + failed over every bucket of stats
Counted == SumField(stats, DOMAIN stats, "success") + SumField(stats, DOMAIN stats, "failed")

C2_CollisionKeepsBoth ==
    LET ex == Exports(log) IN
    (step.kind = "object" /\ step.written # <<>>) =>
        \A i \in 1..Len(ex), j \in 1..Len(ex) :
            (i < j /\ ex[j].oid = step.oid /\ ex[i].oid # ex[j].oid
               /\ ex[i].type = ex[j].type /\ ex[i].w.base = ex[j].w.base) =>
                /\ ex[j].w.path # ex[i].w.path
                /\ ex[j].w.path # ex[j].w.base
                /\ ex[i].w.path \in DOMAIN out /\ ex[j].w.path \in DOMAIN out
                /\ out[ex[i].w.path].owner = ex[i].oid
                /\ out[ex[j].w.path].owner = ex[j].oid

\* C3: an exporter call that ends in failure (returns false or raises)
\* leaves the output tree as it was before the call: no new file, no
\* zero-byte file, no partially written file.
C3_FailureLeavesNoFile ==
    (step.kind = "object" /\ step.res \in {"false", "raise"}) =>
        out = step.outBefore

\* C8: a run whose discovery finds no bundle ends with a non-zero exit
\* status before anything is processed; a run that finds at least one ends
\* with exit status zero.
C8_ExitStatus ==
    (epc = "done" /\ args.ok) =>
        IF bundles = <<>> THEN exitCode # 0 /\ step.kind # "summary"
        ELSE exitCode = 0

\* C9: a bundle whose open step raises does not end the run: the step
\* after it is the head of the loop on the next bundle, with no counter and
\* no file changed; when the run ends every discovered bundle was
\* attempted, the summary is reached with status 0, and the counts reported
\* are those of the exporter calls made on the objects of the bundles that
\* opened.
C9_LoadErrorIsolated ==
    /\ step.kind = "loadfail" =>
         /\ epc = "loop" /\ bi = step.biBefore + 1
         /\ stats = step.statsBefore /\ tex = step.texBefore
         /\ out = step.outBefore
    /\ (epc = "done" /\ args.ok) =>
         /\ hist.loadFailed + hist.loadOk = Len(bundles)
         /\ exitCode = 0 /\ step.kind = "summary"
         /\ \A i \in 1..Len(log) : log[i].oid.bundle # hist.firstFail
         /\ args.tool = "assets" =>
              \A t \in EXTRACTOR_TYPES :
                  /\ Bucket(stats, t).success = CountCalls(t, {"true"})
                  /\ Bucket(stats, t).failed = CountCalls(t, {"false", "raise"})
         /\ args.tool = "textures" =>
              /\ tex.extracted = CountCalls("Texture2D", {"true"})
              /\ tex.failed = CountCalls("Texture2D", {"false", "raise"})
              /\ tex.skipped = CountCalls("Texture2D", {"small"})

\* a finished run whose first bundle failed to open and that exported an
\* object of a later bundle
C9_Witness ==
    /\ epc = "done" /\ hist.firstFail = 1 /\ Len(bundles) >= 2
    /\ \E i \in 1..Len(log) : log[i].oid.bundle > 1 /\ log[i].res = "true"

\* C10: when an exporter call raises, the failure count of the object's
\* type grows by exactly one, no other counter changes, and the run goes on
\* with the same bundle: the loop stays on it and later reaches every
\* remaining bundle.
C10_RaiseCountedOnce ==
    /\ (step.kind = "object" /\ step.res = "raise") =>
         /\ epc = "objs" /\ bi = step.biBefore /\ exitCode = -1
         /\ args.tool = "assets" =>
              LET t == step.obj.type
                  b == Bucket(step.statsBefore, t)
              IN /\ t \in DOMAIN stats
                 /\ stats[t] = [success |-> b.success, failed |-> b.failed + 1]
                 /\ \A u \in DOMAIN stats \ {t} :
                        u \in DOMAIN step.statsBefore /\ stats[u] = step.statsBefore[u]
                 /\ tex = step.texBefore
         /\ args.tool = "textures" =>
              /\ tex = [step.texBefore EXCEPT !.failed = @ + 1]
              /\ stats = step.statsBefore
    /\ (epc = "done" /\ args.ok /\ \E i \in 1..Len(log) : log[i].res = "raise") =>
         hist.loadFailed + hist.loadOk = Len(bundles)

\* an exporter call raised, and a later object of the same bundle and an
\* object of a later bundle were exported
C10_Witness ==
    \E i \in 1..Len(log), j \in 1..Len(log), k \in 1..Len(log) :
        /\ i < j /\ j < k
        /\ log[i].res = "raise"
        /\ log[j].res = "true" /\ log[j].oid.bundle = log[i].oid.bundle
        /\ log[k].res = "true" /\ log[k].oid.bundle > log[i].oid.bundle

\* C11: in a directory batch every loop step counts its file once in total
\* and once in exactly one of cfs_stripped / already_standard / errors, a
\* file whose call raises being the one counted in errors; the loop goes on
\* to the next file after a raise, so the four counts satisfy
\* cfs_stripped + already_standard + errors = total = files visited so far,
\* and the batch ends only with total = number of files found.
C11_BatchCounts ==
    /\ [](spc = "loop" =>
            /\ sstats.total = sidx - 1
            /\ sstats.cfs_stripped + sstats.already_standard + sstats.errors
                 = sstats.total)
    /\ []((spc = "idle" /\ sargs.mode = "dir") =>
            /\ sstats.total = Len(sfiles)
            /\ sstats.cfs_stripped + sstats.already_standard + sstats.errors
                 = sstats.total)
    /\ [][(spc = "loop" /\ sidx' = sidx + 1) =>
            /\ spc' = "loop"
            /\ last'.valid /\ last'.inp = sfiles[sidx]
            /\ sstats'.total = sstats.total + 1
            /\ sstats'.errors =
                 sstats.errors + (IF last'.raised THEN 1 ELSE 0)
            /\ sstats'.cfs_stripped =
                 sstats.cfs_stripped
                 + (IF ~last'.raised /\ last'.ret THEN 1 ELSE 0)
            /\ sstats'.already_standard =
                 sstats.already_standard
                 + (IF ~last'.raised /\ ~last'.ret THEN 1 ELSE 0)]_vars

\* a finished batch of at least two files with one error, whose last file
\* was processed without raising: the raise came earlier and did not stop
\* the loop
C11_Witness ==
    /\ spc = "idle" /\ sargs.mode = "dir" /\ sexit = 0
    /\ Len(sfiles) >= 2
    /\ sstats.errors = 1
    /\ sstats.total = Len(sfiles)
    /\ last.valid /\ ~last.raised /\ last.inp = sfiles[Len(sfiles)]

\* the files of the result and the set E of the listing: known extension
\* (the extension compared in lower case, as the code compares it) or no
\* extension and more than 100 bytes
Returned == {bundles[i] : i \in 1..Len(bundles)}

ExtensionPass ==
    {f \in srcdir : \/ Lower(f.suffix) \in {".bundle", ".unity3d", ".assets", ".resource"}
                    \/ (f.suffix = "" /\ f.size > 100)}

\* C12: find_bundles returns, in strictly ascending path order (hence
\* without duplicates), exactly the files whose extension is a known bundle
\* extension or that have no extension and more than 100 bytes; only when
\* there is no such file it returns every file of more than 100 bytes; a
\* 0-byte file without extension is never returned.
C12_Discovery ==
    epc = "found" =>
      /\ \A i, j \in 1..Len(bundles) :
            i < j => StemRank(bundles[i].stem) < StemRank(bundles[j].stem)
      /\ ExtensionPass # {} => Returned = ExtensionPass
      /\ ExtensionPass = {} => Returned = {f \in srcdir : f.size > 100}
      /\ \A f \in Returned : ~(f.suffix = "" /\ f.size = 0)

\* discovery over a directory holding a known extension, a 0-byte and a
\* 100-byte file without extension and a larger one: the two small files
\* are left out and the result has several files in order
C12_Witness ==
    /\ epc = "found"
    /\ \E f \in srcdir : f.suffix = "" /\ f.size = 0
    /\ \E f \in srcdir : f.suffix = "" /\ f.size = 100
    /\ \E f \in srcdir : f.suffix = "" /\ f.size > 100
    /\ \E f \in srcdir : f.suffix \in {".bundle", ".unity3d"}
    /\ Len(bundles) >= 2

\* discovery falling back: no file passes the extension test and the files
\* above the threshold are returned
C12_FallbackWitness ==
    /\ epc = "found"
    /\ ExtensionPass = {}
    /\ Len(bundles) >= 1

\* bytes 12..31 of the input are not the digest of the bytes after the header
DigestMismatch(b) == SubSeq(b, 13, 32) # Sha1Digest(After32(b))

\* C13: a call of strip_cfs_header on a file that starts with the alternate
\* magic and has its 32 header bytes, whose stored digest is not the digest
\* of the payload or whose payload does not start with the standard magic,
\* raises nothing, returns true and leaves input[32:] in the output file;
\* the mismatch shows only as the warning of its kind.
C13_MismatchNotFatal ==
    (/\ last.valid /\ HasAltMagic(last.before)
     /\ Len(last.before) >= CFS_HEADER_SIZE
     /\ \/ DigestMismatch(last.before)
        \/ ~StartsWith(After32(last.before), UNITYFS_MAGIC)) =>
        /\ ~last.raised /\ last.ret
        /\ last.after.exists
        /\ last.after.bytes = After32(last.before)
        /\ last.warnHash <=> DigestMismatch(last.before)
        /\ last.warnMagic <=> ~StartsWith(After32(last.before), UNITYFS_MAGIC)

\* a standard bundle behind a header with a wrong digest was written out
\* to another path with the digest warning alone
C13_Witness ==
    /\ last.valid /\ HasAltMagic(last.before)
    /\ Len(last.before) > CFS_HEADER_SIZE
    /\ DigestMismatch(last.before)
    /\ StartsWith(After32(last.before), UNITYFS_MAGIC)
    /\ last.inp # last.outp
    /\ last.ret /\ last.warnHash /\ ~last.warnMagic
    /\ last.after.bytes = After32(last.before)

\* the payload is neither a standard bundle nor the one the digest is of
C13_BothWitness ==
    /\ last.valid /\ HasAltMagic(last.before)
    /\ Len(last.before) > CFS_HEADER_SIZE
    /\ last.ret /\ last.warnHash /\ last.warnMagic

C14_NotRequestedWitness ==
    /\ args.tool = "assets" /\ step.kind = "object"
    /\ step.obj.type = "Texture2D"
    /\ "Texture2D" \notin extract_types
    /\ step.res = "skip"
    /\ DOMAIN out # {}

\* C15: over the writes of one run that ended well, in order, no write goes
\* to the path of an earlier one, so the writes left as many files as
\* there were writes.
C15_WritesNeverCollide ==
    LET ex == Exports(log) IN
    /\ \A i \in 1..Len(ex), j \in 1..Len(ex) :
          i < j => ex[i].w.path # ex[j].w.path
    /\ Cardinality({ex[i].w.path : i \in 1..Len(ex)}) = Len(ex)

====
